---- MODULE Spec2Model ----
(***************************************************************************)
(* ArXiv Paper Monitor: the fetch-merge cycle (src/main.py), run by the    *)
(* scheduled task periodic_fetch and by the manual trigger                 *)
(* fetch_papers_now, over the four datasets of DataStorage                 *)
(* (src/storage.py), together with the control operations.                 *)
(*                                                                         *)
(* All coroutines run on one asyncio event loop: a coroutine runs without  *)
(* interruption from one await to the next.  The only awaits are the       *)
(* per-category fetch (main.py 26, 144) and the interval sleep (main.py    *)
(* 69); every other handler runs from its first line to its return in one  *)
(* step.  A pc value in Holding means "this coroutine holds the event      *)
(* loop": no other coroutine takes a step until it reaches its next await  *)
(* or returns.                                                             *)
(*                                                                         *)
(* periodic_fetch receives app.state.__dict__ (main.py 82, 224) and reads  *)
(* app_state["auto_fetch_enabled"], app_state["storage"] and               *)
(* app_state["fetch_interval"] from it.  The framework's State class is    *)
(* not part of src/; the mapping is modelled as the live attributes of     *)
(* app.state, which is the reading under which the task runs at all.       *)
(***************************************************************************)
EXTENDS Integers, Sequences, FiniteSets, TLC

VARIABLES
    auto_fetch_enabled, \* app.state.auto_fetch_enabled
    fetch_task,         \* app.state.fetch_task: "none" (None) or "task" (a Task object)
    papers_file,        \* papers.json: identifier -> [title, is_new]
    seen_file,          \* seen_ids.json: set of identifiers
    config_file,        \* config.json: [state, data]
    status_file,        \* status.json: a FetchStatus, or NoStatus when the file is absent
    pc,                 \* position of the scheduled task and of the manual request
    config,             \* per cycle: the local `config`
    idx,                \* per cycle: index in config of the category being fetched
    all_papers,         \* per cycle: the local `all_papers`
    calls,              \* per cycle: the positions in config the fetcher was invoked for, in order
    response,           \* the response the manual trigger is returning
    merged,             \* history: identifiers saved by completed cycles since the last clear
    everCand,           \* history: identifiers of every candidate list that reached a merge
    racedIds,           \* history: identifiers the scheduled cycle added while the manual cycle was in flight
    prev,               \* history: the candidates of the cycle that completed last, while no other operation has run since
    fresh               \* history: "armed" after a clear all, then the task whose cycle is the first to start after it

vars == <<auto_fetch_enabled, fetch_task, papers_file, seen_file, config_file,
          status_file, pc, config, idx, all_papers, calls, response,
          merged, everCand, racedIds, prev, fresh>>


----------------------------------------------------------------------------
(* Bounds of the model *)

\* longest candidate list of one cycle
MaxCand == 2

Ids == {"A", "B"}
Titles == {"t1", "t2"}
\* the titles upstream serves while cycles overlap
ConcTitles == {"t1"}
Tasks == {"sched", "manual"}

\* config.py 21: CategoryConfig.max_results default
DefaultMaxResults == 50

Min(a, b) == IF a < b THEN a ELSE b

\* a candidate as the fetcher returns it (arxiv_cli.py 94-106); is_new is
\* always True there and is decided by the merge
Candidates(TT) == [id : Ids, title : TT]

SeqsUpTo(S, n) == UNION {[1..k -> S] : k \in 0..n}

\* arxiv_cli.py 25-109: the result of one successful upstream call: at most
\* max_results records (arxiv_cli.py 30), here also at most `room` of them
FetchResults(max_results, room, TT) ==
    SeqsUpTo(Candidates(TT), Min(max_results, room))

\* arxiv_cli.py 38-42 (non-200 answer), 45 (undecodable answer)
FetchErrors == {"ArXiv API error"}

ConfigErrorMsg == "config decode error"

CategoryConfig(c, e, m) == [category |-> c, enabled |-> e, max_results |-> m]

\* storage.py 45-50
DefaultConfig ==
    << CategoryConfig("cs.CV", TRUE, DefaultMaxResults),
       CategoryConfig("cs.LG", TRUE, DefaultMaxResults),
       CategoryConfig("cs.AI", TRUE, DefaultMaxResults) >>

\* configurations posted to update_config: a disabled entry, then the same
\* category twice
ConfigChoices ==
    { << CategoryConfig("cs.CV", FALSE, 1), CategoryConfig("cs.LG", TRUE, 1),
         CategoryConfig("cs.LG", TRUE, 2) >> }

NoStatus == [status |-> "absent", papers_found |-> 0, new_papers |-> 0, message |-> ""]
NoResponse == [status |-> "none", papers_fetched |-> 0, new_papers |-> 0, detail |-> ""]
NoPrev == [valid |-> FALSE, cands |-> <<>>]

----------------------------------------------------------------------------
(* Persistence Store, src/storage.py *)

EmptyPapers == [i \in {} |-> [title |-> "t1", is_new |-> FALSE]]

\* storage.py 18-23: an absent file loads as the empty mapping
load_papers(f) == f

\* variant of load_seen_ids: the file is never read
load_seen_ids_none(f) == {}

\* storage.py 30-34: an absent file loads as the empty set
load_seen_ids(f) == f

\* storage.py 40-50: the saved list, or the defaults when nothing was saved.
\* A malformed file makes json.load / CategoryConfig(**item) raise: see ConfigRaises.
load_config(f) == IF f.state = "absent" THEN DefaultConfig ELSE f.data

\* storage.py 41-44: no except clause around the decode
ConfigRaises(f) == f.state = "malformed"

----------------------------------------------------------------------------
(* The merge loop, main.py 35-43 and 153-161 *)

Put(f, k, v) == [x \in (DOMAIN f) \cup {k} |-> IF x = k THEN v ELSE f[x]]

\* variant of MergeOne: line 40 (seen_ids.add) is missing
MergeOneNoAdd(paper, st) ==
    IF paper.id \notin st.seen_ids
    THEN [seen_ids |-> st.seen_ids,
          existing_papers |-> Put(st.existing_papers, paper.id,
                                  [title |-> paper.title, is_new |-> TRUE]),
          new_count |-> st.new_count + 1]
    ELSE [seen_ids |-> st.seen_ids,
          existing_papers |-> Put(st.existing_papers, paper.id,
                                  [title |-> paper.title, is_new |-> FALSE]),
          new_count |-> st.new_count]

\* variant of MergeOne: line 39 (new_count += 1) runs for every paper
MergeOneCountAll(paper, st) ==
    IF paper.id \notin st.seen_ids
    THEN [seen_ids |-> st.seen_ids \cup {paper.id},
          existing_papers |-> Put(st.existing_papers, paper.id,
                                  [title |-> paper.title, is_new |-> TRUE]),
          new_count |-> st.new_count + 1]
    ELSE [seen_ids |-> st.seen_ids,
          existing_papers |-> Put(st.existing_papers, paper.id,
                                  [title |-> paper.title, is_new |-> FALSE]),
          new_count |-> st.new_count + 1]

\* variant of MergeOne: line 43 (existing_papers[paper.id] = paper) runs only
\* for a new paper
MergeOneKeepOld(paper, st) ==
    IF paper.id \notin st.seen_ids
    THEN [seen_ids |-> st.seen_ids \cup {paper.id},
          existing_papers |-> Put(st.existing_papers, paper.id,
                                  [title |-> paper.title, is_new |-> TRUE]),
          new_count |-> st.new_count + 1]
    ELSE [seen_ids |-> st.seen_ids,
          existing_papers |-> st.existing_papers,
          new_count |-> st.new_count]

\* one iteration of the loop: main.py 37-43
MergeOne(paper, st) ==
    IF paper.id \notin st.seen_ids
    THEN [seen_ids |-> st.seen_ids \cup {paper.id},
          existing_papers |-> Put(st.existing_papers, paper.id,
                                  [title |-> paper.title, is_new |-> TRUE]),
          new_count |-> st.new_count + 1]
    ELSE [seen_ids |-> st.seen_ids,
          existing_papers |-> Put(st.existing_papers, paper.id,
                                  [title |-> paper.title, is_new |-> FALSE]),
          new_count |-> st.new_count]

RECURSIVE MergeLoop(_, _)
MergeLoop(papers, st) ==
    IF papers = <<>> THEN st
    ELSE MergeLoop(Tail(papers), MergeOne(Head(papers), st))

\* main.py 24-25: the positions of cfg with enabled = true, in order
EnabledIdx(cfg) ==
    LET Test(i) == cfg[i].enabled
    IN SelectSeq([i \in 1..Len(cfg) |-> i], Test)

IdsOf(papers) == {papers[i].id : i \in 1..Len(papers)}

\* variant of NextEnabled: line 25 (if cat_config.enabled) is missing
NextEntry(cfg, i) == IF i < Len(cfg) THEN i + 1 ELSE 0

\* main.py 24-25: the next entry after position i with enabled = true, 0 when none
NextEnabled(cfg, i) ==
    IF \E j \in (i+1)..Len(cfg) : cfg[j].enabled
    THEN CHOOSE j \in (i+1)..Len(cfg) :
            cfg[j].enabled /\ \A k \in (i+1)..(j-1) : ~cfg[k].enabled
    ELSE 0

----------------------------------------------------------------------------
(* Event loop *)

\* positions between two awaits: the coroutine holds the event loop
Holding == {"try", "merge", "respond"}

\* positions outside a cycle
Resting == {"created", "sleeping", "done", "idle"}

Busy == \E t \in Tasks : pc[t] \in Holding

\* where a cycle's coroutine goes when the cycle is over: the interval sleep
\* (main.py 69) or the return of the response (main.py 176, 183)
AfterCycle(t) == IF t = "sched" THEN "sleeping" ELSE "respond"

ErrorStatus(msg) ==
    [status |-> "error", papers_found |-> 0, new_papers |-> 0, message |-> msg]

SuccessStatus(found, new) ==
    [status |-> "success", papers_found |-> found, new_papers |-> new,
     message |-> "Fetched"]

Drop(t) ==
    /\ config' = [config EXCEPT ![t] = <<>>]
    /\ idx' = [idx EXCEPT ![t] = 0]
    /\ all_papers' = [all_papers EXCEPT ![t] = <<>>]
    /\ calls' = [calls EXCEPT ![t] = <<>>]

\* history fresh (recorded unless "off"): the cycle of t starts
FreshStart(t) == fresh' = IF fresh = "armed" /\ pc'[t] = "try" THEN t ELSE fresh

\* history fresh: the cycle of t may end in this step
FreshEnd(t) == fresh' = IF fresh = t /\ pc'[t] = AfterCycle(t) THEN "none" ELSE fresh

\* variant of OnException: the records fetched before the failure are merged
\* and saved before the cycle ends
OnExceptionPartial(t, msg) ==
    /\ LET st == MergeLoop(all_papers[t],
                           [seen_ids |-> load_seen_ids(seen_file),
                            existing_papers |-> load_papers(papers_file),
                            new_count |-> 0])
       IN /\ papers_file' = st.existing_papers
          /\ seen_file' = st.seen_ids
    /\ status_file' = IF t = "sched" THEN ErrorStatus(msg) ELSE status_file
    /\ response' = IF t = "manual"
                   THEN [status |-> "error", papers_fetched |-> 0,
                         new_papers |-> 0, detail |-> msg]
                   ELSE response
    /\ pc' = [pc EXCEPT ![t] = AfterCycle(t)]
    /\ prev' = NoPrev
    /\ racedIds' = IF t = "manual" THEN {} ELSE racedIds
    /\ FreshEnd(t)
    /\ Drop(t)
    /\ UNCHANGED <<auto_fetch_enabled, fetch_task, config_file, merged,
                   everCand>>

\* variant of OnException: the manual trigger answers with a success of zero
\* records
OnExceptionSilent(t, msg) ==
    /\ status_file' = IF t = "sched" THEN ErrorStatus(msg) ELSE status_file
    /\ response' = IF t = "manual"
                   THEN [status |-> "success", papers_fetched |-> 0,
                         new_papers |-> 0, detail |-> ""]
                   ELSE response
    /\ pc' = [pc EXCEPT ![t] = AfterCycle(t)]
    /\ prev' = NoPrev
    /\ racedIds' = IF t = "manual" THEN {} ELSE racedIds
    /\ FreshEnd(t)
    /\ Drop(t)
    /\ UNCHANGED <<auto_fetch_enabled, fetch_task, papers_file, seen_file,
                   config_file, merged, everCand>>

\* variant of OnException: no except clause, the exception ends the coroutine
OnExceptionCrash(t, msg) ==
    /\ response' = IF t = "manual"
                   THEN [status |-> "error", papers_fetched |-> 0,
                         new_papers |-> 0, detail |-> msg]
                   ELSE response
    /\ pc' = [pc EXCEPT ![t] = IF t = "sched" THEN "done" ELSE "respond"]
    /\ prev' = NoPrev
    /\ racedIds' = IF t = "manual" THEN {} ELSE racedIds
    /\ FreshEnd(t)
    /\ Drop(t)
    /\ UNCHANGED <<auto_fetch_enabled, fetch_task, papers_file, seen_file,
                   config_file, status_file, merged, everCand>>

\* main.py 58-66 (scheduled: the error status is saved, then the sleep) and
\* main.py 182-183 (manual: HTTPException 500, nothing saved)
OnException(t, msg) ==
    /\ status_file' = IF t = "sched" THEN ErrorStatus(msg) ELSE status_file
    /\ response' = IF t = "manual"
                   THEN [status |-> "error", papers_fetched |-> 0,
                         new_papers |-> 0, detail |-> msg]
                   ELSE response
    /\ pc' = [pc EXCEPT ![t] = AfterCycle(t)]
    /\ prev' = NoPrev
    /\ racedIds' = IF t = "manual" THEN {} ELSE racedIds
    /\ FreshEnd(t)
    /\ Drop(t)
    /\ UNCHANGED <<auto_fetch_enabled, fetch_task, papers_file, seen_file,
                   config_file, merged, everCand>>

----------------------------------------------------------------------------
\* main.py 76-82 over a data directory with no papers, seen-set or status file
Start ==
    /\ auto_fetch_enabled = TRUE
    /\ fetch_task = "task"
    /\ papers_file = EmptyPapers
    /\ seen_file = {}
    /\ config_file \in {[state |-> "absent", data |-> <<>>],
                        [state |-> "malformed", data |-> <<>>]}
    /\ status_file = NoStatus
    /\ pc = [t \in Tasks |-> IF t = "sched" THEN "created" ELSE "idle"]
    /\ config = [t \in Tasks |-> <<>>]
    /\ idx = [t \in Tasks |-> 0]
    /\ all_papers = [t \in Tasks |-> <<>>]
    /\ calls = [t \in Tasks |-> <<>>]
    /\ response = NoResponse
    /\ merged = {}
    /\ everCand = {}
    /\ prev = NoPrev
    /\ racedIds = {}

Init == Start /\ fresh = "off"

InitClear == Start /\ fresh = "none"

----------------------------------------------------------------------------
(* The fetch-merge cycle: periodic_fetch (main.py 16-69) and                *)
(* fetch_papers_now (main.py 135-183)                                       *)

\* variant of LoopCond: while True
LoopCondAlways == TRUE

\* main.py 18: the loop condition of the scheduled task
LoopCond == auto_fetch_enabled

\* main.py 18: the task runs for the first time, or its sleep has ended
LoopTop ==
    /\ ~Busy
    /\ pc["sched"] \in {"created", "sleeping"}
    /\ pc' = [pc EXCEPT !["sched"] = IF LoopCond THEN "try" ELSE "done"]
    /\ FreshStart("sched")
    /\ UNCHANGED <<auto_fetch_enabled, fetch_task, papers_file, seen_file,
                   config_file, status_file, config, idx, all_papers, calls,
                   response, merged, everCand, prev, racedIds>>

\* main.py 135-138: a manual trigger request arrives
Trigger ==
    /\ ~Busy
    /\ pc["manual"] = "idle"
    /\ pc' = [pc EXCEPT !["manual"] = "try"]
    /\ FreshStart("manual")
    /\ UNCHANGED <<auto_fetch_enabled, fetch_task, papers_file, seen_file,
                   config_file, status_file, config, idx, all_papers, calls,
                   response, merged, everCand, prev, racedIds>>

\* after position i of cfg: await the next enabled category, or go on to the merge
Advance(t, cfg, i, papers) ==
    /\ config' = [config EXCEPT ![t] = cfg]
    /\ idx' = [idx EXCEPT ![t] = NextEnabled(cfg, i)]
    /\ all_papers' = [all_papers EXCEPT ![t] = papers]
    /\ calls' = [calls EXCEPT ![t] = IF NextEnabled(cfg, i) = 0 THEN calls[t]
                                     ELSE Append(calls[t], NextEnabled(cfg, i))]
    /\ pc' = [pc EXCEPT ![t] = IF NextEnabled(cfg, i) = 0 THEN "merge" ELSE "fetching"]

\* main.py 21-26 and 139-144: all_papers = [], load_config, up to the first await
LoadConfig(t) ==
    /\ pc[t] = "try"
    /\ IF ConfigRaises(config_file)
       THEN OnException(t, ConfigErrorMsg)
       ELSE /\ Advance(t, load_config(config_file), 0, <<>>)
            /\ UNCHANGED <<auto_fetch_enabled, fetch_task, papers_file, seen_file,
                           config_file, status_file, response, merged,
                           everCand, prev, racedIds, fresh>>

\* main.py 26-29 and 144-147: the awaited fetch returns its records, with
\* titles among TT
FetchReturn(t, TT) ==
    /\ ~Busy
    /\ pc[t] = "fetching"
    /\ \E r \in FetchResults(config[t][idx[t]].max_results,
                             MaxCand - Len(all_papers[t]), TT) :
          Advance(t, config[t], idx[t], all_papers[t] \o r)
    /\ UNCHANGED <<auto_fetch_enabled, fetch_task, papers_file, seen_file,
                   config_file, status_file, response, merged, everCand,
                   prev, racedIds, fresh>>

\* main.py 26 and 144: the awaited fetch raises (arxiv_cli.py 38-45); there is
\* no except clause inside the loop, so the cycle's handler runs at once
FetchFail(t, e) ==
    /\ ~Busy
    /\ pc[t] = "fetching"
    /\ OnException(t, e)

\* main.py 32-56 (then the sleep at 69) and 150-180: load both datasets,
\* merge, save_papers, save_seen_ids, save_status.  With h the histories
\* everCand and racedIds are recorded.
MergeSave(t, h) ==
    /\ pc[t] = "merge"
    /\ LET st == MergeLoop(all_papers[t],
                           [seen_ids |-> load_seen_ids(seen_file),
                            existing_papers |-> load_papers(papers_file),
                            new_count |-> 0])
       IN /\ papers_file' = st.existing_papers
          /\ seen_file' = st.seen_ids
          /\ status_file' = SuccessStatus(Len(all_papers[t]), st.new_count)
          /\ response' = IF t = "manual"
                         THEN [status |-> "success",
                               papers_fetched |-> Len(all_papers[t]),
                               new_papers |-> st.new_count, detail |-> ""]
                         ELSE response
          /\ racedIds' = IF h /\ t = "sched" /\ pc["manual"] = "fetching"
                          THEN racedIds \cup (st.seen_ids \ seen_file)
                          ELSE IF t = "manual" THEN {} ELSE racedIds
    /\ pc' = [pc EXCEPT ![t] = AfterCycle(t)]
    /\ everCand' = IF h THEN everCand \cup IdsOf(all_papers[t]) ELSE everCand
    /\ merged' = merged \cup IdsOf(all_papers[t])
    /\ prev' = IF \A u \in Tasks \ {t} : pc[u] \in Resting
                THEN [valid |-> TRUE, cands |-> all_papers[t]]
                ELSE NoPrev
    /\ FreshEnd(t)
    /\ Drop(t)
    /\ UNCHANGED <<auto_fetch_enabled, fetch_task, config_file>>

\* main.py 176-180 and 183: the response leaves the handler
Respond ==
    /\ pc["manual"] = "respond"
    /\ pc' = [pc EXCEPT !["manual"] = "idle"]
    /\ response' = NoResponse
    /\ UNCHANGED <<auto_fetch_enabled, fetch_task, papers_file, seen_file,
                   config_file, status_file, config, idx, all_papers, calls,
                   merged, everCand, prev, racedIds, fresh>>

----------------------------------------------------------------------------
(* Control surface, main.py 201-258 *)

\* variant of mark_all_seen: line 208 (paper.is_new = False) is missing
mark_all_seen_keep_new ==
    /\ ~Busy
    /\ LET papers == load_papers(papers_file)
           seen_ids == load_seen_ids(seen_file)
       IN /\ papers_file' = papers
          /\ seen_file' = seen_ids \cup DOMAIN papers
    /\ prev' = NoPrev
    /\ UNCHANGED <<auto_fetch_enabled, fetch_task, config_file, status_file, pc,
                   config, idx, all_papers, calls, response, merged, everCand,
                   racedIds, fresh>>

\* main.py 201-214: load both, mark every stored paper, save both
mark_all_seen ==
    /\ ~Busy
    /\ LET papers == load_papers(papers_file)
           seen_ids == load_seen_ids(seen_file)
       IN /\ papers_file' = [i \in DOMAIN papers |->
                                [title |-> papers[i].title, is_new |-> FALSE]]
          /\ seen_file' = seen_ids \cup DOMAIN papers
    /\ prev' = NoPrev
    /\ UNCHANGED <<auto_fetch_enabled, fetch_task, config_file, status_file, pc,
                   config, idx, all_papers, calls, response, merged, everCand, racedIds,
                   fresh>>

\* main.py 217-226: flip the flag; a task is created only when fetch_task is
\* falsy, and fetch_task is never reset after lifespan (main.py 82) set it
toggle_auto_fetch ==
    /\ ~Busy
    /\ auto_fetch_enabled' = ~auto_fetch_enabled
    /\ IF auto_fetch_enabled' /\ fetch_task = "none"
       THEN /\ fetch_task' = "task"
            /\ pc' = [pc EXCEPT !["sched"] = "created"]
       ELSE UNCHANGED <<fetch_task, pc>>
    /\ prev' = NoPrev
    /\ UNCHANGED <<papers_file, seen_file, config_file, status_file, config, idx,
                   all_papers, calls, response, merged, everCand, racedIds, fresh>>

\* main.py 235-239
update_config(c) ==
    /\ ~Busy
    /\ config_file' = [state |-> "ok", data |-> c]
    /\ prev' = NoPrev
    /\ UNCHANGED <<auto_fetch_enabled, fetch_task, papers_file, seen_file,
                   status_file, pc, config, idx, all_papers, calls, response,
                   merged, everCand, racedIds, fresh>>

\* variant of clear_all_data: line 246 (save_seen_ids(set())) is missing
clear_all_data_keep_seen ==
    /\ ~Busy
    /\ papers_file' = EmptyPapers
    /\ status_file' = [status |-> "cleared", papers_found |-> 0, new_papers |-> 0,
                       message |-> "All data cleared"]
    /\ merged' = {}
    /\ racedIds' = {}
    /\ prev' = NoPrev
    /\ fresh' = IF fresh = "off" THEN fresh ELSE "armed"
    /\ UNCHANGED <<auto_fetch_enabled, fetch_task, seen_file, config_file, pc,
                   config, idx, all_papers, calls, response, everCand>>

\* main.py 242-258: save_papers({}), save_seen_ids(set()), the "cleared" status
clear_all_data ==
    /\ ~Busy
    /\ papers_file' = EmptyPapers
    /\ seen_file' = {}
    /\ status_file' = [status |-> "cleared", papers_found |-> 0, new_papers |-> 0,
                       message |-> "All data cleared"]
    /\ merged' = {}
    /\ racedIds' = {}
    /\ prev' = NoPrev
    /\ fresh' = IF fresh = "off" THEN fresh ELSE "armed"
    /\ UNCHANGED <<auto_fetch_enabled, fetch_task, config_file, pc, config, idx,
                   all_papers, calls, response, everCand>>

----------------------------------------------------------------------------
\* storage.py 56-61 and main.py 186-198: the stored status, or the "no_data"
\* placeholder when nothing was stored
get_status(f) ==
    IF f = NoStatus
    THEN [status |-> "no_data", papers_found |-> 0, new_papers |-> 0,
          message |-> "No fetches performed yet"]
    ELSE f

\* main.py 126-132: the stored records as a sequence (the records of the model
\* carry no `updated` field: the order among them is left open)
RECURSIVE SeqOf(_)
SeqOf(S) == IF S = {} THEN <<>>
            ELSE LET x == CHOOSE y \in S : TRUE IN <<x>> \o SeqOf(S \ {x})

get_papers(f) == SeqOf({[id |-> i, title |-> f[i].title, is_new |-> f[i].is_new] :
                        i \in DOMAIN f})

\* main.py 229-232: the loaded configuration; when load_config raises, the
\* request fails (ok = FALSE)
get_config(f) ==
    IF ConfigRaises(f) THEN [ok |-> FALSE, config |-> <<>>]
    ELSE [ok |-> TRUE, config |-> load_config(f)]

----------------------------------------------------------------------------
Next ==
    \/ LoopTop
    \/ \E t \in Tasks : LoadConfig(t)
    \/ \E t \in Tasks : FetchReturn(t, ConcTitles)
    \/ \E t \in Tasks : \E e \in FetchErrors : FetchFail(t, e)
    \/ \E t \in Tasks : MergeSave(t, FALSE)
    \/ Respond
    \/ Trigger
    \/ mark_all_seen
    \/ toggle_auto_fetch
    \/ \E c \in ConfigChoices : update_config(c)
    \/ clear_all_data

Spec == Init /\ [][Next]_vars

\* the system with auto-fetch left on and the configuration file left alone,
\* and the histories everCand and racedIds recorded
NextHist ==
    \/ LoopTop
    \/ \E t \in Tasks : LoadConfig(t)
    \/ \E t \in Tasks : FetchReturn(t, ConcTitles)
    \/ \E t \in Tasks : \E e \in FetchErrors : FetchFail(t, e)
    \/ \E t \in Tasks : MergeSave(t, TRUE)
    \/ Respond
    \/ Trigger
    \/ mark_all_seen
    \/ clear_all_data

SpecHist == Init /\ [][NextHist]_vars

\* cycles and clear all alone, with the history fresh recorded
NextClear ==
    \/ LoopTop
    \/ \E t \in Tasks : LoadConfig(t)
    \/ \E t \in Tasks : FetchReturn(t, ConcTitles)
    \/ \E t \in Tasks : \E e \in FetchErrors : FetchFail(t, e)
    \/ \E t \in Tasks : MergeSave(t, FALSE)
    \/ Respond
    \/ Trigger
    \/ clear_all_data

SpecClear == InitClear /\ [][NextClear]_vars

\* the tasks whose cycles run in NextSeq
SeqTasks == {"manual"}

\* manual cycles one after the other, with mark all seen and clear all,
\* while upstream serves every title of Titles
NextSeq ==
    \/ Trigger
    \/ \E t \in SeqTasks : LoadConfig(t)
    \/ \E t \in SeqTasks : FetchReturn(t, Titles)
    \/ \E t \in SeqTasks : \E e \in FetchErrors : FetchFail(t, e)
    \/ \E t \in SeqTasks : MergeSave(t, FALSE)
    \/ Respond
    \/ mark_all_seen
    \/ clear_all_data

SpecSeq == Init /\ [][NextSeq]_vars

----------------------------------------------------------------------------
(* Properties *)

\* the step in which the cycle of t merges its candidates and saves
MergeStep(t) == pc[t] = "merge" /\ pc'[t] = AfterCycle(t)

\* the step in which the cycle of t ends by an exception: no other step leads
\* from the try block or from an awaited fetch straight to the end of the cycle
FailStep(t) == pc[t] \in {"try", "fetching"} /\ pc'[t] = AfterCycle(t)

\* C1: at the merge of every cycle, the record stored for each candidate
\* identifier has is_new = true exactly when the identifier was absent from
\* the persisted SeenSet when the merge began, duplicates in the candidate
\* list included.
NewFlagCorrect ==
    [][\A t \in Tasks : MergeStep(t) =>
          \A i \in IdsOf(all_papers[t]) :
             papers_file'[i].is_new = (i \notin seen_file)]_vars

\* C2 (as claimed): when the manual cycle saves after the scheduled cycle has
\* added identifiers during its flight, and no clear all has run since, an
\* identifier the scheduled cycle added is missing from the persisted SeenSet
\* or record mapping.
LostUpdateOccurs ==
    [][(MergeStep("manual") /\ racedIds \ IdsOf(all_papers["manual"]) # {}) =>
          \E i \in racedIds : i \notin seen_file' \/ i \notin DOMAIN papers_file']_vars

\* C2 (amended): no interleaving of cycles loses an update: every identifier
\* saved by a completed cycle since the last clear is in the persisted
\* SeenSet and in the persisted record mapping.
NoLostUpdate == merged \subseteq seen_file /\ merged \subseteq DOMAIN papers_file

\* C2: the manual cycle is at its merge after the scheduled cycle added,
\* during its flight, an identifier that is not among its candidates
OverlapSave ==
    /\ pc["manual"] = "merge"
    /\ all_papers["manual"] # <<>>
    /\ racedIds \ IdsOf(all_papers["manual"]) # {}

\* C3: whenever a cycle, scheduled or manual, ends by a failure, the persisted
\* FetchStatus is overwritten with status "error".
ErrorStatusOnFailure ==
    [][\A t \in Tasks : FailStep(t) => status_file'.status = "error"]_vars

\* C4 (as claimed): a cycle that awaits a fetch goes on to the later enabled
\* categories or to the merge, whatever the fetch does, and keeps the records
\* fetched so far.
FailureIsolation ==
    [][\A t \in Tasks : pc[t] = "fetching" =>
          /\ pc'[t] \in {"fetching", "merge"}
          /\ Len(all_papers'[t]) >= Len(all_papers[t])
          /\ SubSeq(all_papers'[t], 1, Len(all_papers[t])) = all_papers[t]]_vars

\* C4 (amended): a failed fetch ends the cycle at once: no later category is
\* fetched, the records fetched so far are dropped, and neither the record
\* mapping nor the SeenSet changes.
FailureAbortsCycle ==
    [][\A t \in Tasks : (pc[t] = "fetching" /\ FailStep(t)) =>
          /\ papers_file' = papers_file
          /\ seen_file' = seen_file
          /\ all_papers'[t] = <<>>
          /\ idx'[t] = 0]_vars

\* C4: a scheduled cycle has failed on a fetch and the store is still empty
FailedFetchSeen ==
    /\ status_file = ErrorStatus("ArXiv API error")
    /\ pc["sched"] = "sleeping"
    /\ seen_file = {} /\ papers_file = EmptyPapers
    /\ config_file.state = "absent"

\* C5 (as claimed): when a cycle completes, the persisted SeenSet is the set
\* of identifiers that were candidates of this or any earlier cycle.
DedupeEver ==
    [][\A t \in Tasks : MergeStep(t) => seen_file' = everCand']_vars

\* C5 (amended): the persisted SeenSet is always the set of
\* identifiers that were candidates of a cycle that has completed since the
\* last clear all.
DedupeSinceClear == seen_file = merged

\* C5: a cycle has completed after a clear all that followed another cycle
SeenAfterClear ==
    /\ ~Busy
    /\ seen_file = {"B"} /\ merged = {"B"} /\ everCand = Ids
    /\ status_file.status = "success"

\* C6: a cycle that completes right after a completed cycle with the same
\* candidates, nothing else having run in between, leaves the persisted
\* SeenSet as it was and reports new_records = 0 and the records_found of the
\* first.
Idempotence ==
    [][\A t \in Tasks :
          (MergeStep(t) /\ prev.valid /\ prev.cands = all_papers[t]) =>
             /\ seen_file' = seen_file
             /\ status_file'.status = "success"
             /\ status_file'.new_papers = 0
             /\ status_file'.papers_found = status_file.papers_found
             /\ status_file'.papers_found = Len(prev.cands)
             /\ t = "manual" =>
                   /\ response'.new_papers = 0
                   /\ response'.papers_fetched = Len(prev.cands)]_vars

\* C6: the second of two successive cycles with the same candidates has
\* completed
SecondCycleDone ==
    /\ prev.valid /\ Len(prev.cands) = MaxCand
    /\ status_file = SuccessStatus(MaxCand, 0)
    /\ seen_file = IdsOf(prev.cands)
    /\ \A i \in seen_file : ~papers_file[i].is_new

\* the step of clear all
ClearStep ==
    /\ papers_file' = EmptyPapers /\ seen_file' = {}
    /\ status_file'.status = "cleared"
    /\ UNCHANGED <<pc, all_papers, calls, config_file, auto_fetch_enabled>>

\* C7: no step removes an identifier from the persisted SeenSet, except the
\* step of clear all.
SeenMonotone ==
    [][seen_file \subseteq seen_file' \/ ClearStep]_vars

\* C7: cycles, mark all seen, replace config and toggle have all run and the
\* SeenSet holds every identifier
SeenFull ==
    /\ seen_file = Ids /\ DOMAIN papers_file = Ids
    /\ \A i \in Ids : ~papers_file[i].is_new
    /\ config_file.state = "ok"
    /\ ~auto_fetch_enabled
    /\ \E t \in Tasks : pc[t] = "fetching"

\* C8: a toggle that enables scheduling when the scheduled task has left its
\* loop starts a new scheduled task.
ToggleRestarts ==
    [][(~auto_fetch_enabled /\ auto_fetch_enabled' /\ pc["sched"] = "done") =>
          pc'["sched"] = "created"]_vars

\* C9: a scheduled cycle begins only while scheduling is enabled, and the
\* scheduled task leaves its loop only between two cycles, in a step that
\* writes no dataset.
DisableStopsTicks ==
    [][/\ (pc["sched"] # "try" /\ pc'["sched"] = "try") => auto_fetch_enabled
       /\ (pc["sched"] # "done" /\ pc'["sched"] = "done") =>
             /\ pc["sched"] \in {"created", "sleeping"}
             /\ UNCHANGED <<papers_file, seen_file, status_file>>]_vars

\* C9: scheduling was disabled and the scheduled task has stopped after a
\* completed cycle
StoppedAfterDisable ==
    /\ ~auto_fetch_enabled /\ pc["sched"] = "done"
    /\ status_file.status = "success"

\* C10: no step of a scheduled cycle ends the scheduled task: from inside a
\* cycle the task moves on inside the cycle or to the interval sleep, and when
\* the sleep ends with scheduling enabled the next cycle begins.
SchedulerSurvives ==
    [][/\ pc["sched"] \in {"try", "fetching", "merge"} =>
             pc'["sched"] \in {"try", "fetching", "merge", "sleeping"}
       /\ (pc["sched"] \in {"try", "fetching"} /\ status_file'.status = "error"
              /\ status_file' # status_file) => pc'["sched"] = "sleeping"
       /\ (pc["sched"] = "sleeping" /\ pc'["sched"] # "sleeping"
              /\ auto_fetch_enabled) => pc'["sched"] = "try"]_vars

\* C10: the scheduled task is fetching again after a cycle of it has failed
FetchingAfterError ==
    /\ status_file.status = "error"
    /\ pc["sched"] = "fetching"

\* C11 (as claimed): clear all leaves the record mapping and the SeenSet empty
\* and the status "cleared", and the first cycle to start after a clear all
\* counts every identifier among its candidates as new.
ClearThenAllNew ==
    [][/\ clear_all_data =>
             /\ papers_file' = EmptyPapers /\ seen_file' = {}
             /\ get_papers(papers_file') = <<>>
             /\ get_status(status_file').status = "cleared"
       /\ \A t \in Tasks : (MergeStep(t) /\ fresh = t) =>
             status_file'.new_papers = Cardinality(IdsOf(all_papers[t]))]_vars

\* C11 (amended): clear all leaves the record mapping and the SeenSet empty
\* and the status "cleared", and a cycle that merges while no cycle has saved
\* an identifier since the clear all counts every identifier among its
\* candidates as new and leaves exactly those in the SeenSet.
ClearResets ==
    [][/\ clear_all_data =>
             /\ papers_file' = EmptyPapers /\ seen_file' = {}
             /\ get_papers(papers_file') = <<>>
             /\ get_status(status_file').status = "cleared"
       /\ \A t \in Tasks : (MergeStep(t) /\ merged = {}) =>
             /\ status_file'.new_papers = Cardinality(IdsOf(all_papers[t]))
             /\ seen_file' = IdsOf(all_papers[t])]_vars

\* C11: the first cycle started after a clear all is at its merge with
\* candidates, and the status is still "cleared"
FreshMerge ==
    \E t \in Tasks :
       /\ pc[t] = "merge" /\ fresh = t
       /\ all_papers[t] # <<>>
       /\ merged = {}
       /\ get_status(status_file).status = "cleared"

\* C12: while the persisted configuration is malformed, get config answers
\* with the default configuration, and a cycle that loads the configuration
\* goes on to fetch with the default configuration.
ConfigFallback ==
    [][config_file.state = "malformed" =>
          /\ get_config(config_file) = [ok |-> TRUE, config |-> DefaultConfig]
          /\ \A t \in Tasks : pc[t] = "try" =>
                /\ pc'[t] = "fetching"
                /\ config'[t] = DefaultConfig]_vars

\* C13: a manual trigger whose cycle ends by a failure answers with an error
\* that carries the message; it answers with a success only in the step that
\* merges and saves the records, the SeenSet and the status, after the fetcher
\* was invoked for every enabled entry of the configuration; and it answers
\* with nothing else.
ManualFailureExplicit ==
    [][/\ FailStep("manual") =>
             /\ response'.status = "error"
             /\ response'.detail \in FetchErrors \cup {ConfigErrorMsg}
       /\ (response'.status = "success" /\ response' # response) =>
             /\ MergeStep("manual")
             /\ calls["manual"] = EnabledIdx(config["manual"])
             /\ status_file' = SuccessStatus(response'.papers_fetched,
                                             response'.new_papers)
             /\ IdsOf(all_papers["manual"]) \subseteq seen_file'
             /\ IdsOf(all_papers["manual"]) \subseteq DOMAIN papers_file'
       /\ pc["manual"] = "respond" => response.status \in {"error", "success"}]_vars

\* C13: the manual trigger is answering with the error of a failed fetch
ManualErrorResponse ==
    /\ pc["manual"] = "respond"
    /\ response.status = "error"
    /\ response.detail \in FetchErrors
    /\ status_file.status # "error"

\* C14: after mark all seen every stored record has is_new = false and its
\* identifier is in the SeenSet; the operation keeps every record (title
\* included) and every identifier of the SeenSet, invokes no fetch and moves
\* no cycle, and leaves the status and the configuration unchanged.
MarkAllSeenEffect ==
    [][mark_all_seen =>
          /\ \A i \in DOMAIN papers_file' : ~papers_file'[i].is_new
          /\ DOMAIN papers_file' \subseteq seen_file'
          /\ DOMAIN papers_file' = DOMAIN papers_file
          /\ \A i \in DOMAIN papers_file : papers_file'[i].title = papers_file[i].title
          /\ seen_file \subseteq seen_file'
          /\ UNCHANGED <<status_file, config_file, pc, calls, all_papers,
                         auto_fetch_enabled>>]_vars

\* C14: a cycle stored two new records and mark all seen has run since
MarkedAll ==
    /\ ~Busy
    /\ DOMAIN papers_file = Ids
    /\ \A i \in Ids : ~papers_file[i].is_new
    /\ status_file = SuccessStatus(2, 2)

\* the title of the last record of papers with identifier i
LastTitle(papers, i) ==
    LET k == CHOOSE k \in 1..Len(papers) :
                /\ papers[k].id = i
                /\ \A j \in (k+1)..Len(papers) : papers[j].id # i
    IN papers[k].title

\* C15: after the merge of a cycle, the record stored for each candidate
\* identifier carries the title fetched last in that cycle, whatever title was
\* stored before; its is_new is false when the identifier was in the SeenSet
\* at the merge, changed title or not; records of other identifiers are kept.
OverwriteLatest ==
    [][\A t \in Tasks : MergeStep(t) =>
          /\ \A i \in IdsOf(all_papers[t]) :
                /\ papers_file'[i].title = LastTitle(all_papers[t], i)
                /\ i \in seen_file => ~papers_file'[i].is_new
          /\ \A i \in DOMAIN papers_file \ IdsOf(all_papers[t]) :
                papers_file'[i] = papers_file[i]]_vars

\* C15: a cycle is at its merge with a candidate whose identifier is stored
\* and seen, with another title
RetitledAtMerge ==
    \E t \in Tasks :
       /\ pc[t] = "merge"
       /\ \E k \in 1..Len(all_papers[t]) :
             /\ all_papers[t][k].id \in seen_file
             /\ all_papers[t][k].id \in DOMAIN papers_file
             /\ papers_file[all_papers[t][k].id].title # all_papers[t][k].title

\* C16: the status a cycle saves at its merge has status "success",
\* papers_found equal to the length of the candidate list, duplicates
\* counted, and new_papers equal to the number of identifiers the merge adds
\* to the SeenSet; hence new_papers <= papers_found.
StatusCounts ==
    [][\A t \in Tasks : MergeStep(t) =>
          /\ status_file'.status = "success"
          /\ status_file'.papers_found = Len(all_papers[t])
          /\ status_file'.new_papers =
                Cardinality(seen_file') - Cardinality(seen_file)
          /\ status_file'.new_papers <= status_file'.papers_found]_vars

\* C16: a cycle with two candidates of one identifier has saved its status
CountedDuplicate ==
    /\ status_file = SuccessStatus(2, 1)
    /\ prev.valid /\ Len(prev.cands) = 2
    /\ IdsOf(prev.cands) = {"A"}
    /\ seen_file = {"A"}

\* C17: no step of a cycle before its merge writes the record mapping or the
\* SeenSet, and the step in which a cycle ends by a failure drops the records
\* fetched so far without merging them.
FailedCycleFrame ==
    [][\A t \in Tasks :
          (/\ pc[t] \in {"try", "fetching"}
           /\ \/ pc'[t] # pc[t]
              \/ idx'[t] # idx[t]
              \/ all_papers'[t] # all_papers[t]) =>
             /\ papers_file' = papers_file
             /\ seen_file' = seen_file
             /\ FailStep(t) => all_papers'[t] = <<>>]_vars

\* C17: a scheduled cycle has failed on a fetch over a store that holds a
\* new record, and the manual trigger is idle
FailedOverStore ==
    /\ status_file.status = "error"
    /\ status_file.message \in FetchErrors
    /\ pc = [t \in Tasks |-> IF t = "sched" THEN "sleeping" ELSE "idle"]
    /\ seen_file = {"A"}
    /\ DOMAIN papers_file = {"A"}
    /\ papers_file["A"].is_new

\* C18: the identifiers that are keys of the persisted record mapping are
\* exactly the persisted SeenSet, in every reachable state (every operation
\* saves both datasets within one step).
KeysAgree == DOMAIN papers_file = seen_file

\* C18: a cycle stored one new record, mark all seen has run, and a cycle is
\* waiting on a fetch
AgreeAfterMark ==
    /\ seen_file = {"A"}
    /\ DOMAIN papers_file = {"A"}
    /\ ~papers_file["A"].is_new
    /\ status_file = SuccessStatus(1, 1)
    /\ \E t \in Tasks : pc[t] = "fetching"

\* the step in which the cycle of t ends, by its merge or by a failure
CycleEnd(t) == pc[t] \in {"try", "fetching", "merge"} /\ pc'[t] = AfterCycle(t)

\* C19 (as claimed): by the end of every cycle the fetcher was invoked exactly
\* once for each enabled entry of the configuration loaded at the start of the
\* cycle, in configuration order, and for no disabled entry.
FetchOrderEveryCycle ==
    [][\A t \in Tasks :
          /\ pc[t] = "fetching" =>
                calls[t] = SubSeq(EnabledIdx(config[t]), 1, Len(calls[t]))
          /\ (pc[t] = "fetching" /\ pc'[t] \in {"fetching", "merge"}) =>
                config'[t] = config[t]
          /\ (CycleEnd(t) /\ ~ConfigRaises(config_file)) =>
                calls[t] = EnabledIdx(config[t])]_vars

\* C19 (amended): while a cycle waits on a fetch, the fetcher has been invoked
\* for the enabled entries up to the awaited one, once each, in configuration
\* order, and for no disabled entry; a cycle that reaches its merge has invoked
\* it exactly once for every enabled entry; the configuration in use is the one
\* loaded at the start of the cycle, whatever is saved meanwhile.
FetchOrder ==
    [][\A t \in Tasks :
          /\ pc[t] = "fetching" =>
                /\ calls[t] # <<>>
                /\ calls[t][Len(calls[t])] = idx[t]
                /\ calls[t] = SubSeq(EnabledIdx(config[t]), 1, Len(calls[t]))
          /\ (pc[t] = "fetching" /\ pc'[t] \in {"fetching", "merge"}) =>
                config'[t] = config[t]
          /\ (pc[t] = "try" /\ pc'[t] \in {"fetching", "merge"}) =>
                config'[t] = load_config(config_file)
          /\ MergeStep(t) => calls[t] = EnabledIdx(config[t])]_vars

\* C19: a cycle that loaded the default configuration is at its merge after
\* three fetches, and another configuration was saved meanwhile
FetchedUnderOldConfig ==
    \E t \in Tasks :
       /\ pc[t] = "merge"
       /\ config[t] = DefaultConfig
       /\ calls[t] = <<1, 2, 3>>
       /\ config_file.state = "ok"

====
